---------------------------- MODULE Spec2Model ----------------------------
(* Model of the reimbursement rules engine of GovExpense v3.0              *)
(* (src/expense_calculator.py, class ExpenseCalculator).                   *)
(*                                                                         *)
(* Representation.                                                         *)
(*  - A datetime is the number of whole seconds since a reference          *)
(*    midnight; timedelta.total_seconds() is then end_time - start_time.   *)
(*  - days_count (a Python float that is always a multiple of 0.5) is held *)
(*    in half-days: 0 = 0.0, 1 = 0.5, 2 = 1.0, 4 = 2.0 ...                 *)
(*  - Money is held in whole baht.  Every amount the per-diem code derives *)
(*    (rate / 3, days_count * rate) is a whole number of baht for the      *)
(*    rates in PER_DIEM_RATES, so no rounding is modelled away.            *)
(*  - A warning or remark text is held as the tag of the message it        *)
(*    carries; the amounts formatted into it are fields of the same dict.  *)
(*  - Python's None is the string "None".                                  *)
(*  - A distance is held in tenths of a kilometre, and the amounts of the  *)
(*    two distance-priced engines (calculate_transportation,               *)
(*    calculate_taxi_meter) in satang (1/100 baht), so that 6.5 baht/km    *)
(*    over 0.1 km is the exact integer 65.  A rate stays in whole baht per *)
(*    km (rate 4) or is held in satang per km (650 for 6.5).               *)
(*  - An exception leaves pc = "raise" and res the exception raised, with  *)
(*    the locals of the frame it was raised in.                            *)
EXTENDS Integers, Sequences, FiniteSets, TLC

VARIABLES
    op,     \* the engine method being invoked
    args,   \* its arguments
    pc,     \* "call": about to run, "return": res holds the returned dict,
            \* "raise": res holds the exception the call ended with
    res,    \* the returned dict, or the exception
    session,  \* st.session_state of the wizard (src/app.py)
    widgets,  \* the values the widgets of the page on screen hold
    page,     \* what the last script run put on screen
    tables,   \* the class attributes of ExpenseCalculator, shared by every call
    heap,     \* the list objects the calls have created, by address
    frames,   \* the engine call each thread is in, with its locals
    log       \* the calls that have ended, with what they handed back

engineVars == <<op, args, pc, res>>
wizardVars == <<session, widgets, page>>
callVars == <<tables, heap, frames, log>>

vars == <<op, args, pc, res, session, widgets, page, tables, heap, frames, log>>

-----------------------------------------------------------------------------
(* Bounds of the model *)

MaxDays == 2          \* end_time ranges over day 0 .. MaxDays
MaxStartDay == 1      \* start_time is midnight of day 0 .. MaxStartDay
MaxMeals == 4         \* provided_meals ranges over -1 .. MaxMeals
MaxNights == 2        \* nights ranges over -1 .. MaxNights
MaxRateOptions == 2   \* how many of the wizard's lump-sum rates are tried
MaxDistanceKm == 85   \* distance_km ranges over -1.0 .. MaxDistanceKm, by 0.1
MaxTraffic == 2       \* traffic_minutes ranges over -1 .. MaxTraffic
MaxCount == 3         \* meal_count, snack_count range over -1 .. MaxCount
MaxWizardDays == 1    \* the wizard's end date is day 0 .. MaxWizardDays
MaxItems == 1         \* transport items the wizard's user adds
MaxThreads == 2       \* threads that invoke the engines concurrently
MaxCalls == 3         \* engine calls begun over all threads

-----------------------------------------------------------------------------
(* Python helpers *)

\* dict.get(key, default)
Get(map, key, default) == IF key \in DOMAIN map THEN map[key] ELSE default

Range(seq) == { seq[i] : i \in 1..Len(seq) }

Min(a, b) == IF a <= b THEN a ELSE b
Max(a, b) == IF a >= b THEN a ELSE b

SECONDS_PER_HOUR == 3600
HOURS_PER_DAY == 24
SECONDS_PER_DAY == HOURS_PER_DAY * SECONDS_PER_HOUR
HALF_DAY_HOURS == 12
QUARTER_DAY_HOURS == 6

\* units of distance and of distance-priced money
TENTHS_PER_KM == 10
SATANG_PER_BAHT == 100

\* days_count values, in half-days
ONE_DAY == 2
HALF_DAY == 1
ZERO_DAYS == 0

-----------------------------------------------------------------------------
(* Static rate tables *)

PER_DIEM_RATES == ("C1-C8" :> 240) @@ ("C9-C11" :> 270)

ACCOM_GENERAL ==
    [ lump_sum |-> ("C1-C8" :> 800) @@ ("C9-C11" :> 1200),
      actual   |-> ("C1-C8"  :> [single |-> 1500, double |-> 850]) @@
                   ("C9-C11" :> [single |-> 2200, double |-> 1200]) ]

ACCOM_TRAINING_PRIVATE ==
    ("C1-C8"  :> [single |-> 1600, double |-> 1000]) @@
    ("C9-C11" :> [single |-> 2700, double |-> 1500])

TRAINING_RATES ==
    [ state   |-> ("Type A" :> [meal |-> 400, snack |-> 35]) @@
                  ("Type B" :> [meal |-> 200, snack |-> 35]),
      private |-> ("Type A" :> [meal |-> 700, snack |-> 50]) @@
                  ("Type B" :> [meal |-> 400, snack |-> 50]) ]

-----------------------------------------------------------------------------
(* calculate_per_diem *)

\* Mutant: the extra day is granted from exactly 12 h on (>= for >)
OvernightDays_AtLeastHalf(total_seconds) ==
    LET days == total_seconds \div (HOURS_PER_DAY * SECONDS_PER_HOUR)
        remainder_seconds == total_seconds % (HOURS_PER_DAY * SECONDS_PER_HOUR)
    IN  IF remainder_seconds >= HALF_DAY_HOURS * SECONDS_PER_HOUR
        THEN days + 1
        ELSE days

\* Rule 2 (overnight): whole days, plus one when the remainder exceeds 12 h.
\* Python's // and % on a negative total floor towards minus infinity, as
\* \div and % do here.
OvernightDays(total_seconds) ==
    LET days == total_seconds \div (HOURS_PER_DAY * SECONDS_PER_HOUR)
        remainder_seconds == total_seconds % (HOURS_PER_DAY * SECONDS_PER_HOUR)
    IN  IF remainder_seconds > HALF_DAY_HOURS * SECONDS_PER_HOUR
        THEN days + 1
        ELSE days

\* Mutant: the half day is granted from exactly 6 h on (>= for >)
DayTripDays_AtLeastQuarter(total_seconds) ==
    IF total_seconds > HALF_DAY_HOURS * SECONDS_PER_HOUR THEN ONE_DAY
    ELSE IF total_seconds >= QUARTER_DAY_HOURS * SECONDS_PER_HOUR THEN HALF_DAY
    ELSE ZERO_DAYS

\* Rule 3 (day trip), in half-days.
DayTripDays(total_seconds) ==
    IF total_seconds > HALF_DAY_HOURS * SECONDS_PER_HOUR THEN ONE_DAY
    ELSE IF total_seconds > QUARTER_DAY_HOURS * SECONDS_PER_HOUR THEN HALF_DAY
    ELSE ZERO_DAYS

\* Mutant: an overnight remainder is quantized like a day trip, so that a
\* remainder of more than six hours adds half a day
DaysCount_HalfDayRemainder(total_seconds, is_overnight) ==
    IF is_overnight
    THEN ONE_DAY * (total_seconds \div SECONDS_PER_DAY) +
         DayTripDays(total_seconds % SECONDS_PER_DAY)
    ELSE DayTripDays(total_seconds)

\* days_count in half-days: float(days) for an overnight trip
DaysCount(total_seconds, is_overnight) ==
    IF is_overnight
    THEN ONE_DAY * OvernightDays(total_seconds)
    ELSE DayTripDays(total_seconds)

\* Mutant: the lookup misses and the default rate is always used
PerDiemRate_AlwaysDefault(c_level) == 240

PerDiemRate(c_level) == Get(PER_DIEM_RATES, c_level, 240)

\* days_count * rate, days_count being in half-days
BaseAmount(days_count, rate) == (days_count * rate) \div ONE_DAY

\* Rule 4: deduction = (rate / 3) * provided_meals when provided_meals > 0
MealDeduction(rate, provided_meals) ==
    IF provided_meals > 0 THEN (rate \div 3) * provided_meals ELSE 0

\* total_allowance after the meal deduction: clamped only inside the
\* `if provided_meals > 0` branch
NetAmount(total_allowance, rate, provided_meals) ==
    IF provided_meals > 0
    THEN Max(0, total_allowance - MealDeduction(rate, provided_meals))
    ELSE total_allowance

calculate_per_diem(start_time, end_time, is_overnight, c_level, provided_meals) ==
    LET total_seconds == end_time - start_time
        days_count == DaysCount(total_seconds, is_overnight)
        rate == PerDiemRate(c_level)
        total_allowance == BaseAmount(days_count, rate)
    IN  [ days_count     |-> days_count,
          rate_per_day   |-> rate,
          base_amount    |-> BaseAmount(days_count, rate),
          provided_meals |-> provided_meals,
          deduction      |-> MealDeduction(rate, provided_meals),
          net_amount     |-> NetAmount(total_allowance, rate, provided_meals) ]

-----------------------------------------------------------------------------
(* validate_accommodation *)

\* Warning texts, by the message they carry
W_RECEIPT == "attach_receipt_and_folio"
W_EXCEEDS == "exceeds_ceiling"
W_STATE_VENUE == "state_venue_uses_general_ceiling"
W_DOUBLE_POLICY == "junior_must_share_double_room"

\* Mutant: the manual override is ignored
GeneralLumpSumRate_NoOverride(c_level, manual_rate) ==
    Get(ACCOM_GENERAL.lump_sum, c_level, 800)

\* manual_rate if manual_rate > 0 else ACCOM_GENERAL["lump_sum"].get(c_level, 800)
GeneralLumpSumRate(c_level, manual_rate) ==
    IF manual_rate > 0 THEN manual_rate
    ELSE Get(ACCOM_GENERAL.lump_sum, c_level, 800)

\* Mutant: the room type is ignored and the single-room ceiling always used
GeneralCeiling_AlwaysSingle(c_level, room_type) ==
    LET ceiling_map == Get(ACCOM_GENERAL.actual, c_level,
                           [single |-> 1500, double |-> 850])
    IN  ceiling_map.single

\* ACCOM_GENERAL["actual"].get(c_level, ...) then .get(room_type, single)
GeneralCeiling(c_level, room_type) ==
    LET ceiling_map == Get(ACCOM_GENERAL.actual, c_level,
                           [single |-> 1500, double |-> 850])
    IN  Get(ceiling_map, room_type, ceiling_map.single)

\* Mutant: the private venue is looked up in the General table
PrivateCeiling_GeneralTable(c_level, room_type) == GeneralCeiling(c_level, room_type)

\* ACCOM_TRAINING_PRIVATE.get(c_level, ...) then .get(room_type, double)
PrivateCeiling(c_level, room_type) ==
    LET ceiling_map == Get(ACCOM_TRAINING_PRIVATE, c_level,
                           [single |-> 1600, double |-> 1000])
    IN  Get(ceiling_map, room_type, ceiling_map.double)

\* Mutant: the cap is not applied (max for min)
Reimbursable_Uncapped(actual_cost, total_ceiling) == Max(actual_cost, total_ceiling)

\* reimbursable = min(actual_cost, total_ceiling)
Reimbursable(actual_cost, total_ceiling) == Min(actual_cost, total_ceiling)

\* Mutant: a cost exactly at the ceiling is refused (< for <=)
IsApproved_Strict(actual_cost, total_ceiling) == actual_cost < total_ceiling

\* is_approved = actual_cost <= total_ceiling
IsApproved(actual_cost, total_ceiling) == actual_cost <= total_ceiling

\* Mutant: the receipt warning is only emitted with the exceeds warning
ActualWarnings_ReceiptOnlyWhenOver(warnings, is_approved) ==
    IF ~is_approved
    THEN Append(Append(warnings, W_RECEIPT), W_EXCEEDS)
    ELSE warnings

\* the warnings list after the Actual branch has appended to it
ActualWarnings(warnings, is_approved) ==
    LET w == Append(warnings, W_RECEIPT)
    IN  IF ~is_approved THEN Append(w, W_EXCEEDS) ELSE w

\* the dict returned when is_vehicle_sleep is set
VehicleSleepResult(trip_type) ==
    [ type                |-> "vehicle_sleep",
      nights              |-> 0,
      rate_per_night      |-> 0,
      allowed_per_night   |-> 0,
      total_allowed       |-> 0,
      reimbursable_amount |-> 0,
      is_approved         |-> TRUE,
      room_type           |-> "None",
      trip_type           |-> trip_type,
      warnings            |-> << >>,
      remark              |-> <<"vehicle_sleep">> ]

calc_general_accommodation(c_level, expense_type, nights, actual_cost, room_type, manual_rate, warnings) ==
    IF expense_type = "lump_sum"
    THEN LET rate == GeneralLumpSumRate(c_level, manual_rate)
             reimbursable == rate * nights
         IN  [ type                |-> "lump_sum",
               nights              |-> nights,
               rate_per_night      |-> rate,
               allowed_per_night   |-> rate,
               total_allowed       |-> reimbursable,
               reimbursable_amount |-> reimbursable,
               is_approved         |-> TRUE,
               room_type           |-> "None",
               trip_type           |-> "general",
               warnings            |-> warnings,
               remark              |-> <<"general_lump_sum">> ]
    ELSE LET ceiling == GeneralCeiling(c_level, room_type)
             total_ceiling == ceiling * nights
             reimbursable == Reimbursable(actual_cost, total_ceiling)
             is_approved == IsApproved(actual_cost, total_ceiling)
         IN  [ type                |-> "actual",
               nights              |-> nights,
               rate_per_night      |-> ceiling,
               allowed_per_night   |-> ceiling,
               total_ceiling       |-> total_ceiling,
               actual_cost         |-> actual_cost,
               reimbursable_amount |-> reimbursable,
               is_approved         |-> is_approved,
               room_type           |-> room_type,
               trip_type           |-> "general",
               warnings            |-> ActualWarnings(warnings, is_approved),
               remark              |-> IF is_approved
                                       THEN <<"general_actual">>
                                       ELSE <<"general_actual", "over_ceiling">> ]

\* Mutant: the policy warning is raised for a single room of any grade
PrivateWarnings_AnySingle(warnings, c_level, room_type) ==
    LET w == IF room_type = "single"
             THEN Append(warnings, W_DOUBLE_POLICY)
             ELSE warnings
    IN  Append(w, W_RECEIPT)

\* the Junior/Single policy warning, then the receipt warning (lines 295-301)
PrivateWarnings(warnings, c_level, room_type) ==
    LET w == IF c_level = "C1-C8" /\ room_type = "single"
             THEN Append(warnings, W_DOUBLE_POLICY)
             ELSE warnings
    IN  Append(w, W_RECEIPT)

\* Training at a state facility (lines 244-288)
TrainingStateAccommodation(c_level, expense_type, nights, actual_cost, room_type, manual_rate, warnings) ==
         LET w0 == Append(warnings, W_STATE_VENUE)
         IN  IF expense_type = "lump_sum"
             THEN LET rate == GeneralLumpSumRate(c_level, manual_rate)
                      reimbursable == rate * nights
                  IN  [ type                |-> "lump_sum",
                        nights              |-> nights,
                        rate_per_night      |-> rate,
                        allowed_per_night   |-> rate,
                        total_allowed       |-> reimbursable,
                        reimbursable_amount |-> reimbursable,
                        is_approved         |-> TRUE,
                        room_type           |-> "None",
                        trip_type           |-> "training",
                        training_venue      |-> "state",
                        warnings            |-> w0,
                        remark              |-> <<"training_state_lump_sum">> ]
             ELSE LET ceiling == GeneralCeiling(c_level, room_type)
                      total_ceiling == ceiling * nights
                      reimbursable == Reimbursable(actual_cost, total_ceiling)
                      is_approved == IsApproved(actual_cost, total_ceiling)
                  IN  [ type                |-> "actual",
                        nights              |-> nights,
                        rate_per_night      |-> ceiling,
                        allowed_per_night   |-> ceiling,
                        total_ceiling       |-> total_ceiling,
                        actual_cost         |-> actual_cost,
                        reimbursable_amount |-> reimbursable,
                        is_approved         |-> is_approved,
                        room_type           |-> room_type,
                        trip_type           |-> "training",
                        training_venue      |-> "state",
                        warnings            |-> ActualWarnings(w0, is_approved),
                        remark              |-> <<"training_state_actual">> ]

\* Mutant: the manual override is honoured, as in the General lump sum
PrivateLumpSumRate_Override(ceiling, manual_rate) ==
    IF manual_rate > 0 THEN manual_rate ELSE ceiling

\* rate = ceiling: the lump-sum rate at a private facility (line 305)
PrivateLumpSumRate(ceiling, manual_rate) == ceiling

\* Training at a private facility (lines 290-350)
TrainingPrivateAccommodation(c_level, expense_type, nights, actual_cost, room_type, manual_rate, warnings) ==
         LET ceiling == PrivateCeiling(c_level, room_type)
             w1 == PrivateWarnings(warnings, c_level, room_type)
         IN  IF expense_type = "lump_sum"
             THEN LET rate == PrivateLumpSumRate(ceiling, manual_rate)
                      reimbursable == rate * nights
                  IN  [ type                |-> "lump_sum",
                        nights              |-> nights,
                        rate_per_night      |-> rate,
                        allowed_per_night   |-> rate,
                        total_allowed       |-> reimbursable,
                        reimbursable_amount |-> reimbursable,
                        is_approved         |-> TRUE,
                        room_type           |-> room_type,
                        trip_type           |-> "training",
                        training_venue      |-> "private",
                        warnings            |-> w1,
                        remark              |-> <<"training_private_lump_sum">> ]
             ELSE LET total_ceiling == ceiling * nights
                      reimbursable == Reimbursable(actual_cost, total_ceiling)
                      is_approved == IsApproved(actual_cost, total_ceiling)
                  IN  [ type                |-> "actual",
                        nights              |-> nights,
                        rate_per_night      |-> ceiling,
                        allowed_per_night   |-> ceiling,
                        total_ceiling       |-> total_ceiling,
                        actual_cost         |-> actual_cost,
                        reimbursable_amount |-> reimbursable,
                        is_approved         |-> is_approved,
                        room_type           |-> room_type,
                        trip_type           |-> "training",
                        training_venue      |-> "private",
                        warnings            |-> IF ~is_approved
                                                THEN Append(w1, W_EXCEEDS)
                                                ELSE w1,
                        remark              |-> IF is_approved
                                                THEN <<"training_private_actual">>
                                                ELSE <<"training_private_actual",
                                                       "over_ceiling">> ]

\* Mutant: the venue is not looked at and the private branch always taken
calc_training_accommodation_VenueIgnored(c_level, expense_type, nights, actual_cost, room_type, training_venue, manual_rate, warnings) ==
    TrainingPrivateAccommodation(c_level, expense_type, nights, actual_cost,
                                 room_type, manual_rate, warnings)

calc_training_accommodation(c_level, expense_type, nights, actual_cost, room_type, training_venue, manual_rate, warnings) ==
    IF training_venue = "state"
    THEN TrainingStateAccommodation(c_level, expense_type, nights, actual_cost,
                                    room_type, manual_rate, warnings)
    ELSE TrainingPrivateAccommodation(c_level, expense_type, nights, actual_cost,
                                      room_type, manual_rate, warnings)

\* Mutant: the vehicle-sleep rule is only applied to training trips
validate_accommodation_VehicleRuleAfterGeneral(c_level, expense_type, nights, actual_cost, room_type, is_vehicle_sleep, manual_rate, trip_type, training_venue) ==
    LET warnings == << >>
    IN  IF trip_type = "general"
        THEN calc_general_accommodation(c_level, expense_type, nights, actual_cost,
                                        room_type, manual_rate, warnings)
        ELSE IF is_vehicle_sleep
        THEN VehicleSleepResult(trip_type)
        ELSE calc_training_accommodation(c_level, expense_type, nights, actual_cost,
                                         room_type, training_venue, manual_rate,
                                         warnings)

validate_accommodation(c_level, expense_type, nights, actual_cost, room_type, is_vehicle_sleep, manual_rate, trip_type, training_venue) ==
    LET warnings == << >>
    IN  IF is_vehicle_sleep
        THEN VehicleSleepResult(trip_type)
        ELSE IF trip_type = "general"
        THEN calc_general_accommodation(c_level, expense_type, nights, actual_cost,
                                        room_type, manual_rate, warnings)
        ELSE calc_training_accommodation(c_level, expense_type, nights, actual_cost,
                                         room_type, training_venue, manual_rate,
                                         warnings)

-----------------------------------------------------------------------------
(* calculate_transportation *)

\* Mutant: the two vehicle rates are exchanged
TransportRate_Swapped(vehicle_type) == IF vehicle_type = "private_car" THEN 2 ELSE 4

\* rate = 4 if vehicle_type == "private_car" else 2   (baht per km)
TransportRate(vehicle_type) == IF vehicle_type = "private_car" THEN 4 ELSE 2

\* amount = distance_km * rate, in satang for a distance in tenths of a km
TransportAmount(distance_km, rate) ==
    (distance_km * rate * SATANG_PER_BAHT) \div TENTHS_PER_KM

calculate_transportation(vehicle_type, distance_km) ==
    LET rate == TransportRate(vehicle_type)
    IN  [ type                |-> vehicle_type,
          distance_km         |-> distance_km,
          rate                |-> rate,
          reimbursable_amount |-> TransportAmount(distance_km, rate) ]

-----------------------------------------------------------------------------
(* calculate_taxi_meter *)

\* fare = 35.0, in satang
TAXI_BASE_FARE == 3500

\* dist_step * rate: satang for a step in tenths of a km, rate in satang per km
BandCharge(dist_step, rate) == (dist_step * rate) \div TENTHS_PER_KM

\* min(remaining_dist, band) for a band given in km
BandStep(remaining_dist, band_km) == Min(remaining_dist, band_km * TENTHS_PER_KM)

\* lines 403-441: the local `fare` once the distance ladder has been walked
TaxiDistanceFare(distance_km) ==
    LET r0 == distance_km - 1 * TENTHS_PER_KM
    IN  IF r0 <= 0 THEN TAXI_BASE_FARE
        ELSE
        LET s1 == BandStep(r0, 9)
            f1 == TAXI_BASE_FARE + BandCharge(s1, 650)
            r1 == r0 - s1
        IN  IF ~(r1 > 0) THEN f1
            ELSE
            LET s2 == BandStep(r1, 10)
                f2 == f1 + BandCharge(s2, 700)
                r2 == r1 - s2
            IN  IF ~(r2 > 0) THEN f2
                ELSE
                LET s3 == BandStep(r2, 20)
                    f3 == f2 + BandCharge(s3, 800)
                    r3 == r2 - s3
                IN  IF ~(r3 > 0) THEN f3
                    ELSE
                    LET s4 == BandStep(r3, 20)
                        f4 == f3 + BandCharge(s4, 850)
                        r4 == r3 - s4
                    IN  IF ~(r4 > 0) THEN f4
                        ELSE
                        LET s5 == BandStep(r4, 20)
                            f5 == f4 + BandCharge(s5, 900)
                            r5 == r4 - s5
                        IN  IF ~(r5 > 0) THEN f5
                            ELSE f5 + BandCharge(r5, 1050)

\* traffic_minutes * 3.0, in satang
TaxiTrafficFare(traffic_minutes) == traffic_minutes * 3 * SATANG_PER_BAHT

\* lines 447-451, in satang
TaxiSurcharges(booking_fee, airport_surcharge) ==
    (IF booking_fee THEN 20 * SATANG_PER_BAHT ELSE 0) +
    (IF airport_surcharge THEN 50 * SATANG_PER_BAHT ELSE 0)

\* the locals of the frame when line 459 starts building the returned dict:
\* `fare` already includes the traffic charge (line 444); no local holds the
\* distance subtotal
TaxiLocals(distance_km, traffic_minutes, booking_fee, airport_surcharge) ==
    LET fare == TaxiDistanceFare(distance_km) + TaxiTrafficFare(traffic_minutes)
        surcharges == TaxiSurcharges(booking_fee, airport_surcharge)
    IN  [ distance_km     |-> distance_km,
          traffic_minutes |-> traffic_minutes,
          fare            |-> fare,
          surcharges      |-> surcharges,
          total_fare      |-> fare + surcharges ]

\* Line 461 reads the name fare_distance, which is assigned nowhere in the
\* function nor in the module: building the dict raises NameError on every
\* call, so no dict is returned.
calculate_taxi_meter(distance_km, traffic_minutes, booking_fee, airport_surcharge) ==
    [ exception |-> "NameError",
      name      |-> "fare_distance",
      locals    |-> TaxiLocals(distance_km, traffic_minutes, booking_fee,
                               airport_surcharge) ]

-----------------------------------------------------------------------------
(* calculate_training_meal_allowance *)

\* Mutant: the two training types are exchanged
TrainingType_Swapped(c_level) == IF c_level = "C9-C11" THEN "Type B" ELSE "Type A"

\* training_type = "Type A" if c_level == "C9-C11" else "Type B"
TrainingType(c_level) == IF c_level = "C9-C11" THEN "Type A" ELSE "Type B"

calculate_training_meal_allowance(c_level, venue, meal_count, snack_count) ==
    LET training_type == TrainingType(c_level)
        rates == TRAINING_RATES[venue][training_type]
        meal_total == meal_count * rates.meal
        snack_total == snack_count * rates.snack
    IN  [ training_type |-> training_type,
          venue         |-> venue,
          meal_rate     |-> rates.meal,
          snack_rate    |-> rates.snack,
          meal_count    |-> meal_count,
          snack_count   |-> snack_count,
          meal_total    |-> meal_total,
          snack_total   |-> snack_total,
          grand_total   |-> meal_total + snack_total ]

-----------------------------------------------------------------------------
(* Inputs *)

Grades == {"C1-C8", "C9-C11"}

\* One second either side of every whole hour of every day
EndTimes ==
    { t \in { d * SECONDS_PER_DAY + h * SECONDS_PER_HOUR + j :
                d \in 0..MaxDays, h \in 0..(HOURS_PER_DAY - 1), j \in {-1, 0, 1} } :
      t >= 0 }

StartTimes == { d * SECONDS_PER_DAY : d \in 0..MaxStartDay }

PerDiemArgs ==
    [ start_time : StartTimes, end_time : EndTimes, is_overnight : BOOLEAN,
      c_level : Grades, provided_meals : (-1)..MaxMeals ]

\* The nightly ceilings of both actual-cost tables
CeilingValues ==
    { GeneralCeiling(g, r) : g \in Grades, r \in {"single", "double"} } \cup
    { PrivateCeiling(g, r) : g \in Grades, r \in {"single", "double"} }

\* -1, 0 and one baht either side of every ceiling x nights
ActualCosts ==
    { c \in { ceiling * n + j :
                ceiling \in CeilingValues, n \in 0..MaxNights, j \in {-1, 0, 1} } :
      c >= -1 }

\* The rates the wizard's lump-sum selectbox offers (src/app.py line 440)
LUMP_SUM_RATE_OPTIONS == <<500, 800, 1000, 1200, 1500, 1600, 2700>>

ManualRates ==
    {-1, 0} \cup { LUMP_SUM_RATE_OPTIONS[i] :
                     i \in 1..Min(MaxRateOptions, Len(LUMP_SUM_RATE_OPTIONS)) }

AccommodationArgs ==
    [ c_level : Grades, expense_type : {"lump_sum", "actual"},
      nights : (-1)..MaxNights, actual_cost : ActualCosts,
      room_type : {"single", "double"}, is_vehicle_sleep : BOOLEAN,
      manual_rate : ManualRates, trip_type : {"general", "training"},
      training_venue : {"state", "private"} ]

\* every tenth of a kilometre from -1.0 km to MaxDistanceKm
Distances == (-1 * TENTHS_PER_KM)..(MaxDistanceKm * TENTHS_PER_KM)

TransportArgs ==
    [ vehicle_type : {"private_car", "motorcycle"}, distance_km : Distances ]

TaxiArgs ==
    [ distance_km : Distances, traffic_minutes : (-1)..MaxTraffic,
      booking_fee : BOOLEAN, airport_surcharge : BOOLEAN ]

TrainingMealArgs ==
    [ c_level : Grades, venue : {"state", "private"},
      meal_count : (-1)..MaxCount, snack_count : (-1)..MaxCount ]

NoResult == [ none |-> TRUE ]

-----------------------------------------------------------------------------
(* The wizard (src/app.py).  Streamlit runs the script from the top on every *)
(* interaction: the page of session.step is rendered, every widget on it     *)
(* returns the value the user gave it, or the default computed from          *)
(* st.session_state when the user has not touched it, and a clicked button   *)
(* returns True once.  One interaction changes one widget.                   *)
(* start_dt and end_dt are the combined (date, time) pairs of lines 325-326; *)
(* the date of a datetime is its whole number of days.                       *)

\* DEFAULTS of lines 148-186, restricted to the keys the computation reads.
\* per_diem_res, which page 4 stores at line 638 and nothing reads back, is
\* kept with the page that shows it.
DEFAULTS ==
    [ step             |-> 1,
      c_level          |-> "C1-C8",
      start_dt         |-> 8 * SECONDS_PER_HOUR,
      end_dt           |-> 16 * SECONDS_PER_HOUR,
      is_overnight     |-> TRUE,
      provided_meals   |-> 0,
      trip_type        |-> "general",
      training_venue   |-> "private",
      accom_method     |-> "lump_sum",
      room_type        |-> "single",
      actual_cost      |-> 0,
      manual_rate      |-> 800,
      nights           |-> 0,
      training_meals   |-> 0,
      training_snacks  |-> 0,
      transport_origin |-> "",
      transport_dest   |-> "",
      transport_items  |-> << >>,
      tmp_dist         |-> 0,
      tmp_taxi_fare    |-> 0,
      accom_res        |-> NoResult ]

\* One interaction: the widget the user changed and the value given to it
NoChange == [ widget |-> "None", value |-> 0 ]

\* The value a widget returns in this run
Widget(change, name, default) ==
    IF change.widget = name THEN change.value ELSE default

\* The widgets of a page nobody has touched: the vehicle selectbox shows its
\* first option, the distance input its default
NoWidgets == [ touched |-> {}, t_key |-> "private_car", t_dist |-> << >> ]

DateOf(dt) == dt \div SECONDS_PER_DAY

\* Mutant: the window is never found in error
WindowError_Never(s) == FALSE

\* start_dt >= end_dt (line 328): the page ends at the error message and no
\* navigation button is rendered
WindowError(s) == s.start_dt >= s.end_dt

\* max(0, (end_date - start_date).days)  (line 373)
AutoNights(s) == Max(0, DateOf(s.end_dt) - DateOf(s.start_dt))

\* step_trip_info: the session after one run of page 1
step_trip_info(s, change) ==
    LET s1 == [ s EXCEPT !.c_level = Widget(change, "c_level", @),
                         !.start_dt = Widget(change, "start_dt", @),
                         !.end_dt = Widget(change, "end_dt", @) ]
    IN  IF WindowError(s1) THEN s1
        ELSE LET s2 == [ s1 EXCEPT !.is_overnight = Widget(change, "is_overnight", @),
                                   !.provided_meals = Widget(change, "provided_meals", @) ]
             IN  [ s2 EXCEPT !.nights = AutoNights(s2) ]

\* The accommodation call of lines 447-466 and 642-659
AccommodationOf(s) ==
    IF s.accom_method = "vehicle_sleep"
    THEN validate_accommodation(s.c_level, "lump_sum", s.nights, 0, "single", TRUE, 0, s.trip_type, "private")
    ELSE validate_accommodation(s.c_level, s.accom_method, s.nights, s.actual_cost, s.room_type, FALSE, s.manual_rate, s.trip_type, s.training_venue)

\* The training-meal call of lines 486-491
TrainingMealsOf(s) ==
    calculate_training_meal_allowance(s.c_level, s.training_venue, s.training_meals, s.training_snacks)

\* default_rate of line 441
DefaultRate(manual_rate) ==
    IF manual_rate \in Range(LUMP_SUM_RATE_OPTIONS) THEN manual_rate ELSE 800

\* Mutant: the result is computed only when none is stored, as on page 4
StoreAccommodation_IfMissing(s) ==
    IF s.accom_res = NoResult THEN [ s EXCEPT !.accom_res = AccommodationOf(s) ] ELSE s

\* st.session_state.accom_res = accom_res  (lines 447-466)
StoreAccommodation(s) == [ s EXCEPT !.accom_res = AccommodationOf(s) ]

\* st.session_state[key] = value, and del st.session_state[key]
SetKey(s, key, value) ==
    [ k \in DOMAIN s \cup {key} |-> IF k = key THEN value ELSE s[k] ]

DelKey(s, key) == [ k \in DOMAIN s \ {key} |-> s[k] ]

\* step_accommodation: the session after one run of page 2.  touched holds
\* the widgets whose default the script forces on every run of a day trip
\* (lines 409-412) and to which the user has given a value of their own.
step_accommodation(s, change, touched) ==
    LET trip_type == Widget(change, "trip_type", s.trip_type)
        training_venue ==
            IF trip_type = "training"
            THEN Widget(change, "training_venue", s.training_venue)
            ELSE s.training_venue
        forced == ~s.is_overnight
        accom_method ==
            IF change.widget = "accom_method" THEN change.value
            ELSE IF forced /\ "accom_method" \notin touched THEN "vehicle_sleep"
            ELSE s.accom_method
        nights ==
            IF change.widget = "nights" THEN change.value
            ELSE IF forced /\ "nights" \notin touched THEN 0
            ELSE s.nights
        s1 == [ s EXCEPT !.trip_type = trip_type,
                         !.training_venue = training_venue,
                         !.accom_method = accom_method,
                         !.nights = nights ]
        s2 == IF accom_method = "actual"
              THEN [ s1 EXCEPT !.room_type = Widget(change, "room_type", @),
                               !.actual_cost = Widget(change, "actual_cost", @) ]
              ELSE IF accom_method = "lump_sum"
              THEN [ s1 EXCEPT !.manual_rate =
                                   Widget(change, "manual_rate", DefaultRate(@)) ]
              ELSE s1
        s3 == StoreAccommodation(s2)
    IN  IF trip_type = "training"
        THEN LET s4 == [ s3 EXCEPT
                           !.training_meals = Widget(change, "training_meals", @),
                           !.training_snacks = Widget(change, "training_snacks", @) ]
             IN  SetKey(s4, "training_meal_res", TrainingMealsOf(s4))
        ELSE SetKey(s3, "training_meal_res", NoResult)

\* The forced widgets that keep the user's value into the next run
TouchedAfter(s, change, touched) ==
    IF s.is_overnight THEN {}
    ELSE touched \cup ({change.widget} \cap {"accom_method", "nights"})

\* sum(it["reimbursable_amount"] for it in transport_items), in satang
RECURSIVE TotalTrans(_)
TotalTrans(items) ==
    IF items = << >> THEN 0
    ELSE items[1].reimbursable_amount + TotalTrans(Tail(items))

\* meal_budget of lines 666-668
MealBudget(s) ==
    IF s.trip_type = "training" /\ Get(s, "training_meal_res", NoResult) # NoResult
    THEN s.training_meal_res.grand_total
    ELSE 0

\* Mutant: the transport items are left out of the sum
GrandTotal_NoTransport(per_diem_res, accom_res, total_trans, meal_budget) ==
    (per_diem_res.net_amount + accom_res.reimbursable_amount + meal_budget) * SATANG_PER_BAHT

\* grand_total of line 670, in satang
GrandTotal(per_diem_res, accom_res, total_trans, meal_budget) ==
    (per_diem_res.net_amount + accom_res.reimbursable_amount + meal_budget)
        * SATANG_PER_BAHT + total_trans

\* The per-diem call of lines 632-637
PerDiemOf(s) ==
    calculate_per_diem(s.start_dt, s.end_dt, s.is_overnight, s.c_level, s.provided_meals)

\* step_summary, lines 640-660: the session after one run of page 4
step_summary(s) ==
    IF s.accom_res = NoResult
    THEN [ s EXCEPT !.accom_res = AccommodationOf(s) ]
    ELSE s

\* Page 3: the vehicle types priced by distance (lines 520, 576)
IsMileage(t_key) == t_key \in {"private_car", "motorcycle"}

\* calculate_road_distance (src/distance_utils.py lines 54-84).  start_coord
\* and end_coord tell whether geocode_address found the place, dist is << >>
\* for None or holds the distance get_osrm_distance returned.
calculate_road_distance(origin, destination, start_coord, end_coord, dist) ==
    LET result == [ distance |-> 0, error |-> "None", details |-> "" ]
    IN  IF origin = "" \/ destination = ""
        THEN [ result EXCEPT !.error = "origin_and_destination_required" ]
        ELSE IF ~start_coord
        THEN [ result EXCEPT !.error = "origin_not_found" ]
        ELSE IF ~end_coord
        THEN [ result EXCEPT !.error = "destination_not_found" ]
        ELSE IF dist # << >>
        THEN [ result EXCEPT !.distance = dist[1], !.details = "route" ]
        ELSE [ result EXCEPT !.error = "no_route" ]

\* t_dist of lines 543-544: what the distance input returns, the value typed
\* into it or its default st.session_state.get("tmp_dist", 0.0)
DistanceValue(s, w) ==
    IF w.t_dist = << >> THEN Get(s, "tmp_dist", 0) ELSE w.t_dist[1]

\* The distance input after a run: it starts again from its default when the
\* default has changed
DistanceWidgetAfter(s, s_next, w) ==
    IF IsMileage(w.t_key) /\ Get(s_next, "tmp_dist", 0) = Get(s, "tmp_dist", 0)
    THEN w.t_dist
    ELSE << >>

\* Lines 575-590: the item appended by the add button, and the keys deleted
AddTransportItem(s, w, t_cost) ==
    LET t_dist == IF IsMileage(w.t_key) THEN DistanceValue(s, w) ELSE 0
        cost_input == IF IsMileage(w.t_key) THEN 0 ELSE t_cost
        reimbursable ==
            IF IsMileage(w.t_key)
            THEN calculate_transportation(w.t_key, t_dist).reimbursable_amount
            ELSE cost_input
        item == [ type                |-> w.t_key,
                  distance_km         |-> t_dist,
                  cost_input          |-> cost_input,
                  reimbursable_amount |-> reimbursable ]
        s1 == [ s EXCEPT !.transport_items = Append(@, item) ]
    IN  DelKey(DelKey(s1, "tmp_dist"), "tmp_taxi_fare")

\* transport_items.pop(i)
Pop(items, i) == [ j \in 1..(Len(items) - 1) |-> IF j < i THEN items[j] ELSE items[j + 1] ]

\* What each page puts on screen
TripPage(s) ==
    [ step    |-> 1,
      error   |-> IF WindowError(s) THEN "start_must_precede_end" ELSE "None",
      buttons |-> IF WindowError(s) THEN {} ELSE {"next"} ]

AccommodationPage == [ step |-> 2, error |-> "None", buttons |-> {"back", "next"} ]

\* Page 3 runs calculate_taxi_meter on the values of the meter widgets as soon
\* as the taxi is selected (line 562); an exception ends the run there, before
\* the add button and the navigation buttons.
TransportPage(w, error) ==
    LET tm_res == calculate_taxi_meter(0, 0, FALSE, FALSE)
    IN  IF w.t_key = "taxi" /\ "exception" \in DOMAIN tm_res
        THEN [ step |-> 3, error |-> tm_res.exception, buttons |-> {} ]
        ELSE [ step |-> 3, error |-> error, buttons |-> {"add", "back", "next"} ]

SummaryPage(s) ==
    [ step         |-> 4,
      error        |-> "None",
      buttons      |-> {"back", "restart"},
      per_diem_res |-> PerDiemOf(s),
      grand_total  |-> GrandTotal(PerDiemOf(s), s.accom_res,
                                  TotalTrans(s.transport_items), MealBudget(s)) ]

-----------------------------------------------------------------------------
(* Specification *)

\* The class attributes of lines 10-53
StaticTables ==
    [ PER_DIEM_RATES         |-> PER_DIEM_RATES,
      ACCOM_GENERAL          |-> ACCOM_GENERAL,
      ACCOM_TRAINING_PRIVATE |-> ACCOM_TRAINING_PRIVATE,
      TRAINING_RATES         |-> TRAINING_RATES ]

Threads == 1..MaxThreads

IdleFrame == [ pc |-> "idle" ]

\* No thread is in an engine call and none has been
NoCalls ==
    /\ tables = StaticTables
    /\ heap = << >>
    /\ frames = [ t \in Threads |-> IdleFrame ]
    /\ log = << >>

\* The wizard before its first interaction: page 1 has been rendered once
WizardInit ==
    /\ session = step_trip_info(DEFAULTS, NoChange)
    /\ widgets = NoWidgets
    /\ page = [ step |-> 1, error |-> "None", buttons |-> {"next"} ]

Init ==
    /\ WizardInit
    /\ NoCalls
    /\ pc = "call"
    /\ res = NoResult
    /\ \/ op = "calculate_per_diem" /\ args \in PerDiemArgs
       \/ op = "validate_accommodation" /\ args \in AccommodationArgs
       \/ op = "calculate_transportation" /\ args \in TransportArgs
       \/ op = "calculate_taxi_meter" /\ args \in TaxiArgs
       \/ op = "calculate_training_meal_allowance" /\ args \in TrainingMealArgs

CallPerDiem ==
    /\ pc = "call"
    /\ op = "calculate_per_diem"
    /\ res' = calculate_per_diem(args.start_time, args.end_time, args.is_overnight,
                                 args.c_level, args.provided_meals)
    /\ pc' = "return"
    /\ UNCHANGED <<op, args, wizardVars, callVars>>

CallValidateAccommodation ==
    /\ pc = "call"
    /\ op = "validate_accommodation"
    /\ res' = validate_accommodation(args.c_level, args.expense_type, args.nights,
                                     args.actual_cost, args.room_type,
                                     args.is_vehicle_sleep, args.manual_rate,
                                     args.trip_type, args.training_venue)
    /\ pc' = "return"
    /\ UNCHANGED <<op, args, wizardVars, callVars>>

CallTransportation ==
    /\ pc = "call"
    /\ op = "calculate_transportation"
    /\ res' = calculate_transportation(args.vehicle_type, args.distance_km)
    /\ pc' = "return"
    /\ UNCHANGED <<op, args, wizardVars, callVars>>

CallTaxiMeter ==
    /\ pc = "call"
    /\ op = "calculate_taxi_meter"
    /\ res' = calculate_taxi_meter(args.distance_km, args.traffic_minutes,
                                   args.booking_fee, args.airport_surcharge)
    /\ pc' = IF "exception" \in DOMAIN res' THEN "raise" ELSE "return"
    /\ UNCHANGED <<op, args, wizardVars, callVars>>

CallTrainingMealAllowance ==
    /\ pc = "call"
    /\ op = "calculate_training_meal_allowance"
    /\ res' = calculate_training_meal_allowance(args.c_level, args.venue,
                                                args.meal_count, args.snack_count)
    /\ pc' = "return"
    /\ UNCHANGED <<op, args, wizardVars, callVars>>

Next ==
    \/ CallPerDiem
    \/ CallValidateAccommodation
    \/ CallTransportation
    \/ CallTaxiMeter
    \/ CallTrainingMealAllowance

Spec == Init /\ [][Next]_vars

-----------------------------------------------------------------------------
(* The wizard's interactions.  Each action is one interaction and the script *)
(* runs it causes: the run in which the widget or button returns its new     *)
(* value and, after st.rerun(), the run that renders the page then current.  *)

\* What the user gives the widgets
WizardEndTimes ==
    { 8 * SECONDS_PER_HOUR } \cup
    { d * SECONDS_PER_DAY + 16 * SECONDS_PER_HOUR : d \in 0..MaxWizardDays }
NightChoices == {0, 1}
ActualCostChoices == {0, 1600}
RateChoices == {500, 800}
TrainingMealChoices == {0, 1}

\* No engine call is under way while the wizard is modelled
EngineIdle ==
    /\ op = "None" /\ args = NoResult /\ pc = "idle" /\ res = NoResult

\* One run of page 1 with one widget changed
TripRun(change) ==
    /\ session.step = 1
    /\ session' = step_trip_info(session, change)
    /\ page' = TripPage(session')
    /\ widgets' = NoWidgets
    /\ UNCHANGED <<engineVars, callVars>>

EditGrade ==
    \E g \in Grades : TripRun([ widget |-> "c_level", value |-> g ])

EditWindow ==
    \E t \in WizardEndTimes : TripRun([ widget |-> "end_dt", value |-> t ])

\* The widgets below the window check are on screen only when it passed
EditOvernight ==
    /\ page.error = "None"
    /\ \E b \in BOOLEAN : TripRun([ widget |-> "is_overnight", value |-> b ])

\* Entering page 2, from page 1 or page 3: its first run
EnterAccommodation(s) ==
    /\ session' = step_accommodation([ s EXCEPT !.step = 2 ], NoChange, {})
    /\ widgets' = NoWidgets
    /\ page' = AccommodationPage
    /\ UNCHANGED <<engineVars, callVars>>

\* Entering page 3, from page 2 or page 4
EnterTransport(s) ==
    /\ session' = [ s EXCEPT !.step = 3 ]
    /\ widgets' = NoWidgets
    /\ page' = TransportPage(widgets', "None")
    /\ UNCHANGED <<engineVars, callVars>>

\* nav_buttons(back=False, next_step=2) of line 375
TripNext ==
    /\ session.step = 1
    /\ "next" \in page.buttons
    /\ EnterAccommodation(step_trip_info(session, NoChange))

\* One run of page 2 with one widget changed
AccomRun(change) ==
    /\ session.step = 2
    /\ session' = step_accommodation(session, change, widgets.touched)
    /\ widgets' = [ widgets EXCEPT !.touched = TouchedAfter(session, change, @) ]
    /\ page' = AccommodationPage
    /\ UNCHANGED <<engineVars, callVars>>

EditTripType ==
    \E t \in {"general", "training"} : AccomRun([ widget |-> "trip_type", value |-> t ])

EditVenue ==
    /\ session.trip_type = "training"
    /\ \E v \in {"private", "state"} :
          AccomRun([ widget |-> "training_venue", value |-> v ])

EditMethod ==
    \E m \in {"lump_sum", "actual", "vehicle_sleep"} :
        AccomRun([ widget |-> "accom_method", value |-> m ])

EditNights ==
    \E n \in NightChoices : AccomRun([ widget |-> "nights", value |-> n ])

EditRoomType ==
    /\ session.accom_method = "actual"
    /\ \E r \in {"single", "double"} : AccomRun([ widget |-> "room_type", value |-> r ])

EditActualCost ==
    /\ session.accom_method = "actual"
    /\ \E c \in ActualCostChoices : AccomRun([ widget |-> "actual_cost", value |-> c ])

EditManualRate ==
    /\ session.accom_method = "lump_sum"
    /\ \E r \in RateChoices : AccomRun([ widget |-> "manual_rate", value |-> r ])

EditTrainingMeals ==
    /\ session.trip_type = "training"
    /\ \E n \in TrainingMealChoices :
          AccomRun([ widget |-> "training_meals", value |-> n ])

\* nav_buttons(next_step=3, back_step=1) of line 501
AccomBack ==
    /\ session.step = 2
    /\ LET s == step_accommodation(session, NoChange, widgets.touched)
       IN  /\ session' = step_trip_info([ s EXCEPT !.step = 1 ], NoChange)
           /\ page' = TripPage(session')
           /\ widgets' = NoWidgets
    /\ UNCHANGED <<engineVars, callVars>>

AccomNext ==
    /\ session.step = 2
    /\ EnterTransport(step_accommodation(session, NoChange, widgets.touched))

\* What the user gives the widgets of page 3, and what the network answers
WizardVehicles == {"private_car", "bus"}
TransportVehicles == {"private_car", "taxi", "bus"}
TypedDistances == {50}
TicketCosts == {10000}
LookupOrigins == {"", "department"}
LookupDestinations == {"province", "elsewhere"}
RoadDistance == ("province" :> 125) @@ ("elsewhere" :> 300)

\* The vehicle selectbox is rendered before the taxi meter runs
SelectVehicle(keys) ==
    /\ session.step = 3
    /\ \E k \in keys :
          widgets' = [ widgets EXCEPT
                         !.t_key = k,
                         !.t_dist = IF IsMileage(k) /\ IsMileage(widgets.t_key)
                                    THEN @ ELSE << >> ]
    /\ page' = TransportPage(widgets', "None")
    /\ UNCHANGED <<session, engineVars, callVars>>

TypeDistance(distances) ==
    /\ session.step = 3
    /\ IsMileage(widgets.t_key)
    /\ \E d \in distances : widgets' = [ widgets EXCEPT !.t_dist = <<d>> ]
    /\ page' = TransportPage(widgets', "None")
    /\ UNCHANGED <<session, engineVars, callVars>>

\* The lookup button, lines 530-540
Lookup ==
    /\ session.step = 3
    /\ IsMileage(widgets.t_key)
    /\ \E origin \in LookupOrigins, destination \in LookupDestinations,
          start_coord \in BOOLEAN, end_coord \in BOOLEAN, routed \in BOOLEAN :
          LET dist == IF routed THEN <<RoadDistance[destination]>> ELSE << >>
              result == calculate_road_distance(origin, destination,
                                                start_coord, end_coord, dist)
          IN  IF result.error # "None"
              THEN /\ UNCHANGED <<session, widgets>>
                   /\ page' = [ lookup |-> result, origin |-> origin,
                                destination |-> destination ]
                                @@ TransportPage(widgets, result.error)
              ELSE /\ session' = SetKey([ session EXCEPT !.transport_origin = origin,
                                                         !.transport_dest = destination ],
                                        "tmp_dist", result.distance)
                   /\ widgets' = [ widgets EXCEPT !.t_dist =
                                       DistanceWidgetAfter(session, session', widgets) ]
                   /\ page' = TransportPage(widgets', "None")
    /\ UNCHANGED <<engineVars, callVars>>

\* The add button, lines 571-591
AddItem(costs) ==
    /\ session.step = 3
    /\ "add" \in page.buttons
    /\ Len(session.transport_items) < MaxItems
    /\ \E has_desc \in BOOLEAN, t_cost \in costs :
          IF ~has_desc
          THEN /\ UNCHANGED <<session, widgets>>
               /\ page' = TransportPage(widgets, "route_description_required")
          ELSE /\ session' = AddTransportItem(session, widgets, t_cost)
               /\ widgets' = [ widgets EXCEPT !.t_dist =
                                   DistanceWidgetAfter(session, session', widgets) ]
               /\ page' = TransportPage(widgets', "None")
    /\ UNCHANGED <<engineVars, callVars>>

\* The delete button of a stored item, lines 605-607
DeleteItem ==
    /\ session.step = 3
    /\ "add" \in page.buttons
    /\ \E i \in 1..Len(session.transport_items) :
          session' = [ session EXCEPT !.transport_items = Pop(@, i) ]
    /\ page' = TransportPage(widgets, "None")
    /\ UNCHANGED <<widgets, engineVars, callVars>>

\* The clear-all button, lines 612-614
ClearItems ==
    /\ session.step = 3
    /\ "add" \in page.buttons
    /\ session.transport_items # << >>
    /\ session' = [ session EXCEPT !.transport_items = << >> ]
    /\ page' = TransportPage(widgets, "None")
    /\ UNCHANGED <<widgets, engineVars, callVars>>

\* nav_buttons(next_step=4, back_step=2) of line 619
TransportBack ==
    /\ session.step = 3
    /\ "back" \in page.buttons
    /\ EnterAccommodation(session)

TransportNext ==
    /\ session.step = 3
    /\ "next" \in page.buttons
    /\ session' = step_summary([ session EXCEPT !.step = 4 ])
    /\ page' = SummaryPage(session')
    /\ widgets' = NoWidgets
    /\ UNCHANGED <<engineVars, callVars>>

\* The back button of page 4, lines 792-794
SummaryBack ==
    /\ session.step = 4
    /\ EnterTransport(step_summary(session))

\* The restart button of page 4, lines 796-799: every key of DEFAULTS is
\* assigned its default, the other keys of the session stay
Restart ==
    /\ session.step = 4
    /\ session' = step_trip_info(DEFAULTS @@ step_summary(session), NoChange)
    /\ page' = TripPage(session')
    /\ widgets' = NoWidgets
    /\ UNCHANGED <<engineVars, callVars>>

InitWizard == EngineIdle /\ WizardInit /\ NoCalls

\* The wizard with the trip and accommodation pages edited and transport
\* items added without a distance; provided_meals and training_snacks are
\* left at their defaults
NextWizard ==
    \/ EditGrade
    \/ EditWindow
    \/ EditOvernight
    \/ TripNext
    \/ EditTripType
    \/ EditVenue
    \/ EditMethod
    \/ EditNights
    \/ EditRoomType
    \/ EditActualCost
    \/ EditManualRate
    \/ EditTrainingMeals
    \/ AccomBack
    \/ AccomNext
    \/ SelectVehicle(WizardVehicles)
    \/ AddItem(TicketCosts)
    \/ DeleteItem
    \/ ClearItems
    \/ TransportBack
    \/ TransportNext
    \/ SummaryBack
    \/ Restart

SpecWizard == InitWizard /\ [][NextWizard]_vars

\* The wizard with the trip facts left at their defaults and the transport
\* page used in full, distance lookups included
NextTransport ==
    \/ TripNext
    \/ AccomBack
    \/ AccomNext
    \/ SelectVehicle(TransportVehicles)
    \/ TypeDistance(TypedDistances)
    \/ Lookup
    \/ AddItem(TicketCosts)
    \/ DeleteItem
    \/ ClearItems
    \/ TransportBack
    \/ TransportNext
    \/ SummaryBack
    \/ Restart

SpecTransport == InitWizard /\ [][NextTransport]_vars

-----------------------------------------------------------------------------
(* Concurrent engine calls.  Every thread invokes methods of an              *)
(* ExpenseCalculator; the class attributes are one object shared by all of   *)
(* them, and a list is an object on the heap that a dict holds by address.   *)
(* validate_accommodation runs statement by statement where it creates and   *)
(* fills its warning list; the other engines read the tables and build a     *)
(* dict of numbers and strings, which is one step.                           *)

\* What the method returns or raises when it runs on its own
Engine(method, a) ==
    CASE method = "calculate_per_diem" ->
            calculate_per_diem(a.start_time, a.end_time, a.is_overnight,
                               a.c_level, a.provided_meals)
      [] method = "validate_accommodation" ->
            validate_accommodation(a.c_level, a.expense_type, a.nights,
                                   a.actual_cost, a.room_type, a.is_vehicle_sleep,
                                   a.manual_rate, a.trip_type, a.training_venue)
      [] method = "calculate_transportation" ->
            calculate_transportation(a.vehicle_type, a.distance_km)
      [] method = "calculate_taxi_meter" ->
            calculate_taxi_meter(a.distance_km, a.traffic_minutes,
                                 a.booking_fee, a.airport_surcharge)
      [] method = "calculate_training_meal_allowance" ->
            calculate_training_meal_allowance(a.c_level, a.venue,
                                              a.meal_count, a.snack_count)

\* A Junior's one-night accommodation claim
AccommodationCall(expense_type, actual_cost, is_vehicle_sleep, trip_type) ==
    [ op   |-> "validate_accommodation",
      args |-> [ c_level |-> "C1-C8", expense_type |-> expense_type, nights |-> 1,
                 actual_cost |-> actual_cost, room_type |-> "single",
                 is_vehicle_sleep |-> is_vehicle_sleep, manual_rate |-> 0,
                 trip_type |-> trip_type, training_venue |-> "private" ] ]

\* The calls the threads choose from: every engine, and every way through
\* validate_accommodation's handling of its warning list
CallChoices ==
    { AccommodationCall("actual", 1600, FALSE, "general"),
      AccommodationCall("lump_sum", 0, FALSE, "training"),
      AccommodationCall("lump_sum", 0, TRUE, "general"),
      [ op   |-> "calculate_per_diem",
        args |-> [ start_time |-> 0, end_time |-> SECONDS_PER_DAY,
                   is_overnight |-> TRUE, c_level |-> "C1-C8",
                   provided_meals |-> 1 ] ],
      [ op   |-> "calculate_transportation",
        args |-> [ vehicle_type |-> "private_car", distance_km |-> 125 ] ],
      [ op   |-> "calculate_taxi_meter",
        args |-> [ distance_km |-> 50, traffic_minutes |-> 0,
                   booking_fee |-> FALSE, airport_surcharge |-> FALSE ] ],
      [ op   |-> "calculate_training_meal_allowance",
        args |-> [ c_level |-> "C1-C8", venue |-> "private",
                   meal_count |-> 1, snack_count |-> 1 ] ] }

\* Mutant: one list object serves every call, as a mutable default would
NewList_Shared(h) == IF h = << >> THEN Append(h, << >>) ELSE h

\* []: a new empty list object; its address is the length of the heap after
NewList(h) == Append(h, << >>)

\* The dict with its lists read from the heap h
Contents(value, h) ==
    IF "warnings" \in DOMAIN value
    THEN [ value EXCEPT !.warnings = h[value.warnings] ]
    ELSE value

\* The record of an ended call: the object handed back and what it held then
Ended(t, value, h) ==
    [ op |-> frames[t].op, args |-> frames[t].args,
      value |-> value, returned |-> Contents(value, h) ]

CallsBegun == Len(log) + Cardinality({ t \in Threads : frames[t].pc # "idle" })

\* a thread invokes an engine
Begin(t) ==
    /\ frames[t].pc = "idle"
    /\ CallsBegun < MaxCalls
    /\ \E c \in CallChoices :
          frames' = [ frames EXCEPT ![t] = [ pc |-> "start", op |-> c.op,
                                             args |-> c.args ] ]
    /\ UNCHANGED <<tables, heap, log, engineVars, wizardVars>>

\* Mutant: the engine stores the default rate it fell back on in the table
RunEngine_WritesTable(t) ==
    /\ frames[t].pc = "start"
    /\ frames[t].op # "validate_accommodation"
    /\ log' = Append(log, Ended(t, Engine(frames[t].op, frames[t].args), heap))
    /\ frames' = [ frames EXCEPT ![t] = IdleFrame ]
    /\ tables' = [ tables EXCEPT !.PER_DIEM_RATES = @ @@ ("default" :> 240) ]
    /\ UNCHANGED <<heap, engineVars, wizardVars>>

\* calculate_per_diem, calculate_transportation, calculate_taxi_meter and
\* calculate_training_meal_allowance: the tables are read, a new dict of
\* numbers and strings is returned, or the exception raised
RunEngine(t) ==
    /\ frames[t].pc = "start"
    /\ frames[t].op # "validate_accommodation"
    /\ log' = Append(log, Ended(t, Engine(frames[t].op, frames[t].args), heap))
    /\ frames' = [ frames EXCEPT ![t] = IdleFrame ]
    /\ UNCHANGED <<tables, heap, engineVars, wizardVars>>

\* warnings: list[str] = []  (line 143); todo holds the appends the branch
\* taken will make, in order
CreateWarnings(t) ==
    /\ frames[t].pc = "start"
    /\ frames[t].op = "validate_accommodation"
    /\ heap' = NewList(heap)
    /\ frames' = [ frames EXCEPT ![t] =
                     [ pc |-> "body", op |-> frames[t].op, args |-> frames[t].args,
                       warnings |-> Len(heap'),
                       todo |-> Engine(frames[t].op, frames[t].args).warnings ] ]
    /\ UNCHANGED <<tables, log, engineVars, wizardVars>>

\* lines 148-161: the vehicle-sleep dict carries a list of its own
ReturnVehicleSleep(t) ==
    /\ frames[t].pc = "body"
    /\ frames[t].args.is_vehicle_sleep
    /\ heap' = NewList(heap)
    /\ log' = Append(log, Ended(t, [ VehicleSleepResult(frames[t].args.trip_type)
                                       EXCEPT !.warnings = Len(heap') ], heap'))
    /\ frames' = [ frames EXCEPT ![t] = IdleFrame ]
    /\ UNCHANGED <<tables, engineVars, wizardVars>>

\* warnings.append(...)  (lines 210, 212, 245, 271, 273, 296, 301, 328)
AppendWarning(t) ==
    /\ frames[t].pc = "body"
    /\ ~frames[t].args.is_vehicle_sleep
    /\ frames[t].todo # << >>
    /\ heap' = [ heap EXCEPT ![frames[t].warnings] = Append(@, Head(frames[t].todo)) ]
    /\ frames' = [ frames EXCEPT ![t].todo = Tail(@) ]
    /\ UNCHANGED <<tables, log, engineVars, wizardVars>>

\* return {..., "warnings": warnings, ...}  (lines 190-201, 219-230, 252-263,
\* 277-288, 309-320, 336-347)
ReturnAccommodation(t) ==
    /\ frames[t].pc = "body"
    /\ ~frames[t].args.is_vehicle_sleep
    /\ frames[t].todo = << >>
    /\ log' = Append(log, Ended(t, [ Engine(frames[t].op, frames[t].args)
                                       EXCEPT !.warnings = frames[t].warnings ], heap))
    /\ frames' = [ frames EXCEPT ![t] = IdleFrame ]
    /\ UNCHANGED <<tables, heap, engineVars, wizardVars>>

InitCalls == EngineIdle /\ WizardInit /\ NoCalls

NextCalls ==
    \E t \in Threads :
        \/ Begin(t)
        \/ RunEngine(t)
        \/ CreateWarnings(t)
        \/ ReturnVehicleSleep(t)
        \/ AppendWarning(t)
        \/ ReturnAccommodation(t)

SpecCalls == InitCalls /\ [][NextCalls]_vars

-----------------------------------------------------------------------------
(* Properties of calculate_per_diem *)

Returned(method) == pc = "return" /\ op = method

Elapsed == args.end_time - args.start_time

\* C1: an overnight trip of total_seconds >= 0 is granted
\* floor(total_seconds / 86400) days, plus one exactly when the remainder is
\* strictly more than 43200 s; 24h gives 1 day, 24h+11h59m59s and 24h+12h give
\* 1 day, 24h+12h00m01s gives 2 days.  (days_count is in half-days.)
C1_OvernightDayCount ==
    (Returned("calculate_per_diem") /\ args.is_overnight /\ Elapsed >= 0) =>
        LET whole == Elapsed \div 86400
            rest  == Elapsed - whole * 86400
        IN  /\ res.days_count = 2 * (whole + (IF rest > 43200 THEN 1 ELSE 0))
            /\ (Elapsed = 86400  => res.days_count = 2)
            /\ (Elapsed = 129599 => res.days_count = 2)
            /\ (Elapsed = 129600 => res.days_count = 2)
            /\ (Elapsed = 129601 => res.days_count = 4)

C1_Witness ==
    /\ Returned("calculate_per_diem") /\ args.is_overnight
    /\ Elapsed = 129601 /\ res.days_count = 4

\* C2: a day trip is granted 1 day when it lasts strictly more than 12 h,
\* half a day when strictly more than 6 h and at most 12 h, nothing otherwise;
\* 12h00m00s gives 0.5, 12h00m01s gives 1, 6h00m00s gives 0, 6h00m01s gives 0.5.
C2_DayTripDayCount ==
    (Returned("calculate_per_diem") /\ ~args.is_overnight) =>
        /\ res.days_count = (IF Elapsed > 43200 THEN 2
                             ELSE IF Elapsed > 21600 THEN 1 ELSE 0)
        /\ (Elapsed = 43200 => res.days_count = 1)
        /\ (Elapsed = 43201 => res.days_count = 2)
        /\ (Elapsed = 21600 => res.days_count = 0)
        /\ (Elapsed = 21601 => res.days_count = 1)

C2_Witness ==
    /\ Returned("calculate_per_diem") /\ ~args.is_overnight
    /\ Elapsed = 43200 /\ res.days_count = 1

\* C3: for every per-diem call with provided_meals >= 0 the deduction is
\* (rate / 3) x provided_meals and net_amount = max(0, base_amount - deduction),
\* so net_amount is never negative.
C3_NetIsClampedDifference ==
    (Returned("calculate_per_diem") /\ args.provided_meals >= 0) =>
        /\ res.deduction = (res.rate_per_day \div 3) * args.provided_meals
        /\ res.net_amount = Max(0, res.base_amount - res.deduction)
        /\ res.net_amount >= 0

\* The same statement on the windows the wizard lets through (end > start).
C3_NetIsClampedOnValidWindow ==
    (Returned("calculate_per_diem") /\ args.provided_meals >= 0 /\ Elapsed > 0) =>
        /\ res.deduction = (res.rate_per_day \div 3) * args.provided_meals
        /\ res.net_amount = Max(0, res.base_amount - res.deduction)
        /\ res.net_amount >= 0

\* C4: the daily rate is 240 for grade C1-C8 and 270 for grade C9-C11, and
\* base_amount = days_count x rate_per_day for every window and grade.
\* (days_count is in half-days, hence the factor 2.)
C4_RateAndBaseAmount ==
    Returned("calculate_per_diem") =>
        /\ (args.c_level = "C1-C8"  => res.rate_per_day = 240)
        /\ (args.c_level = "C9-C11" => res.rate_per_day = 270)
        /\ 2 * res.base_amount = res.days_count * res.rate_per_day

C4_Witness ==
    /\ Returned("calculate_per_diem") /\ args.c_level = "C9-C11"
    /\ ~args.is_overnight /\ Elapsed = 43200
    /\ res.rate_per_day = 270 /\ res.base_amount = 135

-----------------------------------------------------------------------------
(* Properties of validate_accommodation *)

\* the call takes one of the three Actual branches
ActualBranch ==
    /\ Returned("validate_accommodation")
    /\ ~args.is_vehicle_sleep
    /\ args.expense_type = "actual"

\* the nightly ceiling the regulation tables give an ActualCost claim:
\* the General table for General trips and State-facility training, the
\* dedicated table for Private-facility training
TableCeiling ==
    IF args.trip_type = "training" /\ args.training_venue = "private"
    THEN (CASE args.c_level = "C1-C8"  /\ args.room_type = "single" -> 1600
            [] args.c_level = "C1-C8"  /\ args.room_type = "double" -> 1000
            [] args.c_level = "C9-C11" /\ args.room_type = "single" -> 2700
            [] args.c_level = "C9-C11" /\ args.room_type = "double" -> 1500)
    ELSE (CASE args.c_level = "C1-C8"  /\ args.room_type = "single" -> 1500
            [] args.c_level = "C1-C8"  /\ args.room_type = "double" -> 850
            [] args.c_level = "C9-C11" /\ args.room_type = "single" -> 2200
            [] args.c_level = "C9-C11" /\ args.room_type = "double" -> 1200)

\* C5: when is_vehicle_sleep is set the result has reimbursable_amount = 0,
\* nights = 0 and is_approved, whatever the other inputs are.
C5_VehicleSleepOverrides ==
    (Returned("validate_accommodation") /\ args.is_vehicle_sleep) =>
        /\ res.reimbursable_amount = 0
        /\ res.nights = 0
        /\ res.is_approved = TRUE

C5_Witness ==
    /\ Returned("validate_accommodation") /\ args.is_vehicle_sleep
    /\ args.expense_type = "actual" /\ args.nights = 2 /\ args.actual_cost > 0
    /\ args.trip_type = "general"
    /\ res.reimbursable_amount = 0 /\ res.nights = 0

\* C6: for every ActualCost claim (General, Training/State, Training/Private)
\* with nights >= 0 and actual_cost >= 0, reimbursable_amount =
\* min(actual_cost, ceiling x nights) and is_approved holds exactly when
\* actual_cost <= ceiling x nights.
C6_ActualCostCapping ==
    (ActualBranch /\ args.nights >= 0 /\ args.actual_cost >= 0) =>
        LET cap == TableCeiling * args.nights
        IN  /\ res.reimbursable_amount =
                  (IF args.actual_cost <= cap THEN args.actual_cost ELSE cap)
            /\ res.is_approved = (args.actual_cost <= cap)

C6_Witness ==
    /\ ActualBranch /\ args.trip_type = "training" /\ args.training_venue = "state"
    /\ args.nights = 2 /\ args.actual_cost = TableCeiling * 2
    /\ res.is_approved = TRUE /\ res.reimbursable_amount = args.actual_cost

\* C7: for a General trip with method ActualCost the nightly ceiling is
\* Junior single 1500, Junior double 850, Senior single 2200, Senior double
\* 1200, and total_ceiling = ceiling x nights.
C7_GeneralCeilingTable ==
    (ActualBranch /\ args.trip_type = "general") =>
        /\ res.rate_per_night =
              (CASE args.c_level = "C1-C8"  /\ args.room_type = "single" -> 1500
                 [] args.c_level = "C1-C8"  /\ args.room_type = "double" -> 850
                 [] args.c_level = "C9-C11" /\ args.room_type = "single" -> 2200
                 [] args.c_level = "C9-C11" /\ args.room_type = "double" -> 1200)
        /\ res.total_ceiling = res.rate_per_night * args.nights

C7_Witness ==
    /\ ActualBranch /\ args.trip_type = "general"
    /\ args.c_level = "C1-C8" /\ args.room_type = "double" /\ args.nights = 2
    /\ res.rate_per_night = 850 /\ res.total_ceiling = 1700

\* C8: for a General trip with method LumpSum the nightly rate is the manual
\* override when it is > 0 and otherwise 800 for Junior, 1200 for Senior;
\* reimbursable_amount = rate x nights for rate >= 0 and nights >= 0, and the
\* result is always approved.
C8_GeneralLumpSum ==
    (/\ Returned("validate_accommodation") /\ ~args.is_vehicle_sleep
     /\ args.trip_type = "general" /\ args.expense_type = "lump_sum") =>
        /\ res.rate_per_night =
              (IF args.manual_rate > 0 THEN args.manual_rate
               ELSE IF args.c_level = "C1-C8" THEN 800 ELSE 1200)
        /\ (args.nights >= 0 =>
               res.reimbursable_amount = res.rate_per_night * args.nights)
        /\ res.is_approved = TRUE

C8_Witness ==
    /\ Returned("validate_accommodation") /\ ~args.is_vehicle_sleep
    /\ args.trip_type = "general" /\ args.expense_type = "lump_sum"
    /\ args.manual_rate = 500 /\ args.nights = 2 /\ args.c_level = "C9-C11"
    /\ res.reimbursable_amount = 1000

\* C9: in every ActualCost branch the warnings contain the receipt/folio
\* warning for every input, and contain an exceeds-ceiling warning exactly
\* when the result is not approved (actual_cost > ceiling x nights).
C9_ActualCostWarnings ==
    ActualBranch =>
        /\ W_RECEIPT \in Range(res.warnings)
        /\ (W_EXCEEDS \in Range(res.warnings)) = (~res.is_approved)
        /\ (~res.is_approved) =
              (args.actual_cost > TableCeiling * args.nights)

C9_Witness ==
    /\ ActualBranch /\ args.trip_type = "training"
    /\ args.training_venue = "private" /\ ~res.is_approved
    /\ W_RECEIPT \in Range(res.warnings) /\ W_EXCEEDS \in Range(res.warnings)

\* C10: for every accommodation result computed from valid input (nights >= 0,
\* actual_cost >= 0, manual_rate >= 0), reimbursable_amount >= 0, and where a
\* ceiling applies (ActualCost) reimbursable_amount <= total_ceiling.
C10_ReimbursableWithinBounds ==
    (/\ Returned("validate_accommodation")
     /\ args.nights >= 0 /\ args.actual_cost >= 0 /\ args.manual_rate >= 0) =>
        /\ res.reimbursable_amount >= 0
        /\ (ActualBranch => res.reimbursable_amount <= res.total_ceiling)

C10_Witness ==
    /\ ActualBranch /\ args.nights = 1 /\ args.actual_cost > res.total_ceiling
    /\ res.reimbursable_amount = res.total_ceiling
    /\ res.reimbursable_amount > 0

\* the call takes a Training branch at the given venue
TrainingAt(venue) ==
    /\ Returned("validate_accommodation")
    /\ ~args.is_vehicle_sleep
    /\ args.trip_type = "training"
    /\ args.training_venue = venue

\* the result of the General trip with the same inputs
SameAsGeneral ==
    validate_accommodation(args.c_level, args.expense_type, args.nights,
                           args.actual_cost, args.room_type, FALSE,
                           args.manual_rate, "general", args.training_venue)

\* C11: a Training trip at a StateFacility yields, for LumpSum and ActualCost
\* and every grade, room type, nights, actual cost and manual rate, the same
\* rate_per_night, reimbursable_amount and is_approved as the General trip
\* with the same inputs, and its warnings always contain the venue warning.
C11_StateVenueSameAsGeneral ==
    TrainingAt("state") =>
        /\ res.rate_per_night = SameAsGeneral.rate_per_night
        /\ res.reimbursable_amount = SameAsGeneral.reimbursable_amount
        /\ res.is_approved = SameAsGeneral.is_approved
        /\ W_STATE_VENUE \in Range(res.warnings)

C11_Witness ==
    /\ TrainingAt("state") /\ args.expense_type = "actual"
    /\ args.c_level = "C9-C11" /\ args.room_type = "double" /\ args.nights = 2
    /\ args.actual_cost = 2401 /\ res.reimbursable_amount = 2400
    /\ ~res.is_approved /\ ~SameAsGeneral.is_approved
    /\ W_STATE_VENUE \in Range(res.warnings)

\* C12: a Training trip at a PrivateFacility uses the dedicated ceiling table
\* (Junior single 1600, double 1000; Senior single 2700, double 1500), and
\* with method ActualCost reimbursable = min(actual_cost, ceiling x nights).
C12_PrivateCeilingTable ==
    TrainingAt("private") =>
        /\ res.rate_per_night =
              (CASE args.c_level = "C1-C8"  /\ args.room_type = "single" -> 1600
                 [] args.c_level = "C1-C8"  /\ args.room_type = "double" -> 1000
                 [] args.c_level = "C9-C11" /\ args.room_type = "single" -> 2700
                 [] args.c_level = "C9-C11" /\ args.room_type = "double" -> 1500)
        /\ (args.expense_type = "actual" =>
               LET cap == res.rate_per_night * args.nights
               IN  res.reimbursable_amount =
                      (IF args.actual_cost <= cap THEN args.actual_cost ELSE cap))

C12_Witness ==
    /\ TrainingAt("private") /\ args.expense_type = "actual"
    /\ args.c_level = "C9-C11" /\ args.room_type = "single" /\ args.nights = 2
    /\ args.actual_cost = 5401 /\ res.rate_per_night = 2700
    /\ res.reimbursable_amount = 5400

\* C13: for a Training trip at a PrivateFacility with method LumpSum the
\* nightly rate is the private ceiling for (grade, room type) and
\* reimbursable_amount = rate x nights, whatever the manual rate override is.
C13_PrivateLumpSumIgnoresOverride ==
    (TrainingAt("private") /\ args.expense_type = "lump_sum") =>
        /\ res.rate_per_night = TableCeiling
        /\ res.reimbursable_amount = TableCeiling * args.nights

C13_Witness ==
    /\ TrainingAt("private") /\ args.expense_type = "lump_sum"
    /\ args.manual_rate = 500 /\ args.c_level = "C1-C8"
    /\ args.room_type = "double" /\ args.nights = 2
    /\ res.rate_per_night = 1000 /\ res.reimbursable_amount = 2000

\* C14: at a PrivateFacility the double-occupancy warning is emitted exactly
\* when the grade is Junior and the room is Single, and it is advisory: with
\* or without it rate_per_night, reimbursable_amount and is_approved are what
\* the ceiling table and the method give.
C14_DoublePolicyAdvisory ==
    TrainingAt("private") =>
        LET cap == TableCeiling * args.nights
        IN  /\ (W_DOUBLE_POLICY \in Range(res.warnings)) =
                  (args.c_level = "C1-C8" /\ args.room_type = "single")
            /\ res.rate_per_night = TableCeiling
            /\ res.reimbursable_amount =
                  (IF args.expense_type = "lump_sum" \/ args.actual_cost > cap
                   THEN cap ELSE args.actual_cost)
            /\ res.is_approved =
                  (args.expense_type = "lump_sum" \/ args.actual_cost <= cap)

C14_Witness ==
    /\ TrainingAt("private") /\ args.expense_type = "actual"
    /\ args.c_level = "C1-C8" /\ args.room_type = "single" /\ args.nights = 1
    /\ args.actual_cost = 1600 /\ W_DOUBLE_POLICY \in Range(res.warnings)
    /\ res.is_approved /\ res.reimbursable_amount = 1600

-----------------------------------------------------------------------------
(* Properties of calculate_transportation *)

\* C15: reimbursable_amount = distance_km x rate with rate 4 for a private
\* car and 2 for a motorcycle, for every distance_km >= 0, with no cap.
\* (distance in tenths of a km, amount in satang: 10 x amount = 100 x km x rate.)
C15_TransportLinear ==
    (Returned("calculate_transportation") /\ args.distance_km >= 0) =>
        /\ res.rate = (IF args.vehicle_type = "private_car" THEN 4 ELSE 2)
        /\ 10 * res.reimbursable_amount = 100 * args.distance_km * res.rate

C15_Witness ==
    /\ Returned("calculate_transportation")
    /\ args.vehicle_type = "private_car" /\ args.distance_km = 850
    /\ res.reimbursable_amount = 34000

-----------------------------------------------------------------------------
(* Properties of calculate_taxi_meter *)

\* the call to calculate_taxi_meter has ended, by return or by exception
TaxiEnded == op = "calculate_taxi_meter" /\ pc # "call"

\* tenths of a km of the distance d that lie between lo_km and hi_km
Within(d, lo_km, hi_km) ==
    LET top == IF d < hi_km * 10 THEN d ELSE hi_km * 10
    IN  IF top > lo_km * 10 THEN top - lo_km * 10 ELSE 0

\* the tariff ladder in closed form, in satang: 35 baht, then 6.5, 7.0, 8.0,
\* 8.5, 9.0 baht/km over km 1-10, 10-20, 20-40, 40-60, 60-80, then 10.5
LadderFare(d) ==
    3500 + 65 * Within(d, 1, 10) + 70 * Within(d, 10, 20)
         + 80 * Within(d, 20, 40) + 85 * Within(d, 40, 60)
         + 90 * Within(d, 60, 80) + 105 * (IF d > 800 THEN d - 800 ELSE 0)

\* the total the tariff gives a request, in satang
TariffTotal(d, minutes, booking, airport) ==
    LadderFare(d) + 300 * minutes
        + (IF booking THEN 2000 ELSE 0) + (IF airport THEN 5000 ELSE 0)

\* C16: the distance fare is 35 for the first km plus the distance beyond
\* 1 km consumed greedily, in order, from bands of 9, 10, 20, 20, 20 km at
\* 6.5, 7.0, 8.0, 8.5, 9.0 per km, the rest at 10.5 per km; 11 km with no
\* traffic and no surcharges gives a fare of 100.5.
C16_TieredDistanceFare ==
    (/\ TaxiEnded /\ args.distance_km >= 0 /\ args.traffic_minutes = 0
     /\ ~args.booking_fee /\ ~args.airport_surcharge) =>
        /\ pc = "return"
        /\ res.total_fare = LadderFare(args.distance_km)
        /\ (args.distance_km = 110 => res.total_fare = 10050)

\* The ladder of lines 403-441 itself: the local `fare` of a call without
\* traffic minutes is the closed form of the tariff.
TaxiLadderInLocals ==
    (TaxiEnded /\ pc = "raise" /\ args.traffic_minutes = 0) =>
        res.locals.fare = LadderFare(args.distance_km)

\* C17: calculate_taxi_meter returns total_fare = tiered distance fare +
\* traffic_minutes x 3.0 + 20 if app-booking + 50 if airport, unrounded;
\* distance 0 with no traffic and no flags returns total_fare = 35.
C17_TotalFareReturned ==
    (TaxiEnded /\ args.distance_km >= 0 /\ args.traffic_minutes >= 0) =>
        /\ pc = "return"
        /\ res.total_fare = TariffTotal(args.distance_km, args.traffic_minutes,
                                        args.booking_fee, args.airport_surcharge)
        /\ ((/\ args.distance_km = 0 /\ args.traffic_minutes = 0
             /\ ~args.booking_fee /\ ~args.airport_surcharge)
               => res.total_fare = 3500)

\* The local total_fare of line 453 is the tariff total.
TaxiTotalInLocals ==
    (TaxiEnded /\ pc = "raise") =>
        res.locals.total_fare =
            TariffTotal(args.distance_km, args.traffic_minutes,
                        args.booking_fee, args.airport_surcharge)

\* C18: the returned record exposes a distance-fare field equal to the tiered
\* subtotal before traffic and surcharges, beside the traffic fare and the
\* surcharges, so that total_fare = fare_distance + fare_traffic + surcharges.
C18_DistanceFareExposed ==
    (TaxiEnded /\ args.distance_km >= 0 /\ args.traffic_minutes >= 0) =>
        /\ pc = "return"
        /\ res.fare_distance = LadderFare(args.distance_km)
        /\ res.total_fare = res.fare_distance + res.fare_traffic + res.surcharges

\* C19: total_fare is monotone: a request that differs from this one only by
\* a larger distance, or only by more traffic minutes, or only by a surcharge
\* flag switched on, has a total_fare at least as large.
C19_TotalFareMonotone ==
    (TaxiEnded /\ args.distance_km >= 0 /\ args.traffic_minutes >= 0) =>
        /\ pc = "return"
        /\ res.total_fare <=
              TaxiLocals(args.distance_km + 1, args.traffic_minutes,
                         args.booking_fee, args.airport_surcharge).total_fare
        /\ res.total_fare <=
              TaxiLocals(args.distance_km, args.traffic_minutes + 1,
                         args.booking_fee, args.airport_surcharge).total_fare
        /\ res.total_fare <=
              TaxiLocals(args.distance_km, args.traffic_minutes,
                         TRUE, args.airport_surcharge).total_fare
        /\ res.total_fare <=
              TaxiLocals(args.distance_km, args.traffic_minutes,
                         args.booking_fee, TRUE).total_fare

\* The local total_fare of line 453 is monotone in each input.
TaxiLocalTotalMonotone ==
    (TaxiEnded /\ pc = "raise") =>
        /\ res.locals.total_fare <=
              TaxiLocals(args.distance_km + 1, args.traffic_minutes,
                         args.booking_fee, args.airport_surcharge).total_fare
        /\ res.locals.total_fare <=
              TaxiLocals(args.distance_km, args.traffic_minutes + 1,
                         args.booking_fee, args.airport_surcharge).total_fare
        /\ res.locals.total_fare <=
              TaxiLocals(args.distance_km, args.traffic_minutes,
                         TRUE, args.airport_surcharge).total_fare
        /\ res.locals.total_fare <=
              TaxiLocals(args.distance_km, args.traffic_minutes,
                         args.booking_fee, TRUE).total_fare

-----------------------------------------------------------------------------
(* Properties of calculate_training_meal_allowance *)

\* C20: grade Senior is Type A and Junior Type B; the (meal, snack) rates are
\* State/A (400, 35), State/B (200, 35), Private/A (700, 50), Private/B
\* (400, 50); meal_total = meal_count x meal_rate, snack_total = snack_count x
\* snack_rate, grand_total = meal_total + snack_total; Senior, Private,
\* 2 meals, 1 snack gives 1400, 50, 1450.
C20_TrainingMealAllowance ==
    Returned("calculate_training_meal_allowance") =>
        /\ res.training_type = (IF args.c_level = "C9-C11" THEN "Type A" ELSE "Type B")
        /\ res.meal_rate =
              (CASE args.venue = "state"   /\ args.c_level = "C9-C11" -> 400
                 [] args.venue = "state"   /\ args.c_level = "C1-C8"  -> 200
                 [] args.venue = "private" /\ args.c_level = "C9-C11" -> 700
                 [] args.venue = "private" /\ args.c_level = "C1-C8"  -> 400)
        /\ res.snack_rate = (IF args.venue = "state" THEN 35 ELSE 50)
        /\ res.meal_total = args.meal_count * res.meal_rate
        /\ res.snack_total = args.snack_count * res.snack_rate
        /\ res.grand_total = res.meal_total + res.snack_total

C20_Witness ==
    /\ Returned("calculate_training_meal_allowance")
    /\ args.c_level = "C9-C11" /\ args.venue = "private"
    /\ args.meal_count = 2 /\ args.snack_count = 1
    /\ res.meal_total = 1400 /\ res.snack_total = 50 /\ res.grand_total = 1450

-----------------------------------------------------------------------------
(* Properties of the engine as a whole *)

\* Every number of the call is non-negative and the travel window has
\* end > start.  Grades, venues, methods and room types of Init are all known.
WellFormedInput ==
    CASE op = "calculate_per_diem" ->
            Elapsed > 0 /\ args.provided_meals >= 0
      [] op = "validate_accommodation" ->
            args.nights >= 0 /\ args.actual_cost >= 0 /\ args.manual_rate >= 0
      [] op = "calculate_transportation" -> args.distance_km >= 0
      [] op = "calculate_taxi_meter" ->
            args.distance_km >= 0 /\ args.traffic_minutes >= 0
      [] op = "calculate_training_meal_allowance" ->
            args.meal_count >= 0 /\ args.snack_count >= 0

\* C21: each of the five engine operations fails only on malformed input: a
\* call with a known grade, venue, method and room type, non-negative numbers
\* and end > start completes and returns a result record.
C21_WellFormedCallsReturn ==
    (pc # "call" /\ WellFormedInput) => pc = "return"

\* The four engines other than the taxi meter return on every input tried,
\* well-formed or not.
EnginesOtherThanTaxiReturn ==
    (pc # "call" /\ op # "calculate_taxi_meter") => pc = "return"

\* Negative nights, negative distance, negative counts, or a window with
\* start >= end
MalformedInput ==
    CASE op = "calculate_per_diem" -> Elapsed <= 0
      [] op = "validate_accommodation" -> args.nights < 0
      [] op = "calculate_transportation" -> args.distance_km < 0
      [] op = "calculate_taxi_meter" -> args.distance_km < 0
      [] op = "calculate_training_meal_allowance" ->
            args.meal_count < 0 \/ args.snack_count < 0

\* C24: malformed input (negative nights, negative distance, negative counts,
\* or a window with start >= end) is rejected as InvalidInput before any
\* computation: the call ends in an error outcome and produces no money amount.
C24_MalformedInputRejected ==
    (pc # "call" /\ MalformedInput) =>
        /\ pc = "raise"
        /\ res.exception = "InvalidInput"

\* What the engines do with malformed input instead: outside the taxi meter
\* the call returns a record computed from the malformed numbers.
MalformedInputIsComputed ==
    (pc # "call" /\ MalformedInput /\ op # "calculate_taxi_meter") =>
        /\ pc = "return"
        /\ op = "calculate_transportation" =>
              res.reimbursable_amount =
                  (args.distance_km * res.rate * SATANG_PER_BAHT) \div TENTHS_PER_KM
        /\ op = "calculate_training_meal_allowance" =>
              res.grand_total = args.meal_count * res.meal_rate +
                                args.snack_count * res.snack_rate

\* C29: the receipt/folio-attachment warning appears in an accommodation
\* result if and only if the method is ActualCost and the claim is not
\* VehicleSleep; no LumpSum result, in any trip type or venue, carries the
\* receipt warning or the exceeds-ceiling warning.
C29_ReceiptWarningIffActual ==
    (Returned("validate_accommodation") /\ WellFormedInput) =>
        /\ (W_RECEIPT \in Range(res.warnings)) <=>
              (args.expense_type = "actual" /\ ~args.is_vehicle_sleep)
        /\ (args.expense_type = "lump_sum") =>
              /\ W_RECEIPT \notin Range(res.warnings)
              /\ W_EXCEEDS \notin Range(res.warnings)

\* The same statement holds of every result outside a training trip at a
\* private venue, and no lump-sum result carries the exceeds-ceiling warning.
ReceiptWarningIffActualOutsidePrivate ==
    Returned("validate_accommodation") =>
        /\ ~(~args.is_vehicle_sleep /\ TrainingAt("private")) =>
              ((W_RECEIPT \in Range(res.warnings)) <=>
                  (args.expense_type = "actual" /\ ~args.is_vehicle_sleep))
        /\ (args.expense_type = "lump_sum") => W_EXCEEDS \notin Range(res.warnings)

\* C30: for every window with end > start, days_count is a non-negative
\* multiple of 0.5: a whole number of days for every overnight trip and one of
\* 0, 0.5, 1 for every day trip, so that 1.5 is never returned.
C30_DaysCountQuantized ==
    (Returned("calculate_per_diem") /\ Elapsed > 0) =>
        /\ res.days_count >= ZERO_DAYS
        /\ args.is_overnight => res.days_count % ONE_DAY = 0
        /\ ~args.is_overnight => res.days_count \in {ZERO_DAYS, HALF_DAY, ONE_DAY}
        /\ res.days_count # ONE_DAY + HALF_DAY

\* An overnight trip of exactly 36 hours is granted 1.0 day, and a day trip of
\* more than 36 hours is granted 1.0 day.
C30_Witness ==
    /\ Returned("calculate_per_diem")
    /\ \/ /\ args.is_overnight
          /\ Elapsed = (HOURS_PER_DAY + HALF_DAY_HOURS) * SECONDS_PER_HOUR
          /\ res.days_count = ONE_DAY
       \/ /\ ~args.is_overnight
          /\ Elapsed > (HOURS_PER_DAY + HALF_DAY_HOURS) * SECONDS_PER_HOUR
          /\ res.days_count = ONE_DAY

-----------------------------------------------------------------------------
(* Properties of the wizard *)

\* The sum of reimbursable_amount over the first n stored items
RECURSIVE ItemSum(_, _)
ItemSum(items, n) ==
    IF n = 0 THEN 0 ELSE ItemSum(items, n - 1) + items[n].reimbursable_amount

\* C25: a failed distance lookup never introduces a nonzero distance: a
\* result of calculate_road_distance that reports a failure reason has
\* distance 0, and the distance the untouched distance input feeds to the
\* mileage computation while a failed lookup is on screen is not a nonzero
\* value supplied by that lookup or by an earlier lookup of another route.
C25_FailedLookupSuppliesNoDistance ==
    ("lookup" \in DOMAIN page /\ page.lookup.error # "None") =>
        /\ page.lookup.distance = 0
        /\ (IsMileage(widgets.t_key) /\ widgets.t_dist = << >>) =>
              \/ DistanceValue(session, widgets) = 0
              \/ /\ session.transport_origin = page.origin
                 /\ session.transport_dest = page.destination

\* The first half holds: a result with a failure reason has distance 0.
FailedLookupHasZeroDistance ==
    ("lookup" \in DOMAIN page /\ page.lookup.error # "None") =>
        page.lookup.distance = 0

\* C26: the grand total of the summary is per-diem net_amount +
\* accommodation reimbursable_amount + the sum of reimbursable_amount over
\* all stored transport items + the training-meal grand_total, the last one
\* only when the trip type is Training and 0 otherwise.
C26_GrandTotal ==
    (session.step = 4) =>
        page.grand_total =
            ( PerDiemOf(session).net_amount
              + session.accom_res.reimbursable_amount
              + (IF session.trip_type = "training"
                 THEN TrainingMealsOf(session).grand_total
                 ELSE 0) ) * SATANG_PER_BAHT
            + ItemSum(session.transport_items, Len(session.transport_items))

\* A training trip whose four components are all positive
C26_Witness ==
    /\ session.step = 4
    /\ session.trip_type = "training"
    /\ PerDiemOf(session).net_amount > 0
    /\ session.accom_res.reimbursable_amount > 0
    /\ TotalTrans(session.transport_items) > 0
    /\ session.training_meal_res.grand_total > 0
    /\ page.grand_total >
          (PerDiemOf(session).net_amount + session.accom_res.reimbursable_amount)
              * SATANG_PER_BAHT

\* C27: the summary page, which calls calculate_per_diem, is reached only
\* with end > start: while start >= end page 1 renders no button, so no
\* sequence of edits and navigation leaves it.
C27_WindowValidatedBeforeSummary ==
    /\ (session.step = 4) => session.end_dt > session.start_dt
    /\ (session.step # 1) => session.end_dt > session.start_dt
    /\ (session.step = 1 /\ session.start_dt >= session.end_dt) => page.buttons = {}

\* The summary reached with a window the user has edited
C27_Witness ==
    /\ session.step = 4
    /\ session.end_dt # DEFAULTS.end_dt
    /\ page.per_diem_res.days_count > ZERO_DAYS

\* Page 1 held with start >= end after the later pages had been visited
WindowErrorAfterReturn ==
    /\ session.step = 1
    /\ session.start_dt >= session.end_dt
    /\ session.accom_res # NoResult
    /\ page.buttons = {}

\* C28: at the summary page the stored accommodation result that enters the
\* grand total is validate_accommodation applied to the session's current
\* grade, method, nights, actual cost, room type, manual rate, trip type and
\* venue, whatever edits, back/next navigation and restarts came before.
C28_SummaryAccommodationIsCurrent ==
    (session.step = 4) =>
        session.accom_res =
            validate_accommodation(
                session.c_level,
                IF session.accom_method = "vehicle_sleep"
                THEN "lump_sum" ELSE session.accom_method,
                session.nights, session.actual_cost, session.room_type,
                session.accom_method = "vehicle_sleep",
                session.manual_rate, session.trip_type, session.training_venue)

\* The summary of a Senior traveller's one-night actual-cost claim: grade and
\* window were edited on page 1, the claim on page 2
C28_Witness ==
    /\ session.step = 4
    /\ session.c_level = "C9-C11"
    /\ session.accom_method = "actual"
    /\ session.nights = 1
    /\ session.actual_cost = 1600
    /\ session.accom_res.reimbursable_amount = 1600

-----------------------------------------------------------------------------
(* Properties of concurrent and repeated engine calls *)

\* The list objects the dict handed back by an ended call refers to
ListsOf(entry) ==
    IF "warnings" \in DOMAIN entry.value THEN {entry.value.warnings} ELSE {}

\* C22: every engine is deterministic and idempotent: two calls of the same
\* engine with identical inputs, whatever other engine calls ran in between,
\* hand back identical result records, warning lists included (or end with
\* the same exception).
C22_RepeatedCallsAgree ==
    \A i, j \in DOMAIN log :
        (log[i].op = log[j].op /\ log[i].args = log[j].args) =>
            log[i].returned = log[j].returned

\* The same accommodation claim made twice, with a call of another engine
\* ended in between, both results carrying two warnings
C22_Witness ==
    /\ Len(log) = 3
    /\ log[1].op = "validate_accommodation"
    /\ log[2].op # "validate_accommodation"
    /\ log[3].op = log[1].op
    /\ log[3].args = log[1].args
    /\ Len(log[1].returned.warnings) = 2
    /\ log[3].returned = log[1].returned

\* C23: no engine call mutates shared state: under every interleaving of
\* concurrent calls the static rate tables are unchanged, what each ended
\* call handed back holds, then and ever after, the result of the same call
\* run alone, and no warning list is shared between two results or between a
\* result and a call still running.
C23_NoSharedMutableState ==
    /\ tables = StaticTables
    /\ \A i \in DOMAIN log :
          /\ log[i].returned = Engine(log[i].op, log[i].args)
          /\ Contents(log[i].value, heap) = log[i].returned
    /\ \A i, j \in DOMAIN log :
          (i # j) => ListsOf(log[i]) \cap ListsOf(log[j]) = {}
    /\ \A t \in Threads :
          (frames[t].pc = "body") =>
              /\ \A i \in DOMAIN log : frames[t].warnings \notin ListsOf(log[i])
              /\ \A u \in Threads \ {t} :
                    (frames[u].pc = "body") =>
                        frames[u].warnings # frames[t].warnings

\* Two threads are inside validate_accommodation at once, each with one of
\* its two warnings appended, after a third call's result was handed back
\* with its own two warnings
C23_Witness ==
    /\ Len(log) = 1
    /\ log[1].op = "validate_accommodation"
    /\ Len(log[1].returned.warnings) = 2
    /\ \A t \in Threads :
          /\ frames[t].pc = "body"
          /\ Len(frames[t].todo) = 1
          /\ Len(heap[frames[t].warnings]) = 1

=============================================================================
